---- MODULE Spec2Model ----
(***************************************************************************)
(* Model of scripts/consolidate_docs.py: the classifier                    *)
(* map_file_to_category and the five steps of main() acting on a file      *)
(* tree.                                                                   *)
(*                                                                         *)
(* Paths are sequences of entry names relative to root_dir, names are      *)
(* strings.  The box-drawing characters of the decorated directory names   *)
(* are written with ASCII stand-ins ("|===" for the T-shaped pieces,       *)
(* "+===" for the corner pieces); only equality of these names matters.    *)
(***************************************************************************)
EXTENDS Integers, Sequences, FiniteSets, TLC

(***************************************************************************)
(* Bounds of the model.                                                    *)
(***************************************************************************)
\* largest number of entries of DocPool put under docs/ initially
MaxDocs == 2
\* number of invocations of main() in one behaviour
MaxRuns == 2
\* largest number of read-only directories
MaxReadOnly == 1
\* largest number of name fragments joined into a classifier input name
MaxFrags == 2

(***************************************************************************)
(* Strings: str.lower(), the substring test "kw in s", Path.stem,          *)
(* Path.suffix and the decimal rendering of an integer in an f-string.     *)
(***************************************************************************)
UpperLetters == "ABCDEFGHIJKLMNOPQRSTUVWXYZ"
LowerLetters == "abcdefghijklmnopqrstuvwxyz"

CharAt(s, i) == SubSeq(s, i, i)

LowerChar(c) ==
    IF \E i \in 1..Len(UpperLetters) : CharAt(UpperLetters, i) = c
    THEN CharAt(LowerLetters, CHOOSE i \in 1..Len(UpperLetters) : CharAt(UpperLetters, i) = c)
    ELSE c

\* str.lower(), character by character from position i on
RECURSIVE LowerFrom(_, _)
LowerFrom(s, i) ==
    IF i > Len(s) THEN ""
    ELSE LowerChar(CharAt(s, i)) \o LowerFrom(s, i + 1)

Lower(s) == LowerFrom(s, 1)

\* Python's  kw in s
Contains(s, kw) ==
    \E i \in 1..(Len(s) - Len(kw) + 1) : SubSeq(s, i, i + Len(kw) - 1) = kw

EndsWith(s, t) ==
    Len(s) >= Len(t) /\ SubSeq(s, Len(s) - Len(t) + 1, Len(s)) = t

\* str.rfind("."): the last index of a dot, 0 when there is none
LastDot(s) ==
    IF \E i \in 1..Len(s) : CharAt(s, i) = "."
    THEN CHOOSE i \in 1..Len(s) :
            /\ CharAt(s, i) = "."
            /\ \A j \in (i+1)..Len(s) : CharAt(s, j) # "."
    ELSE 0

\* PurePath.suffix: the last dot and what follows it, unless the dot leads or
\* ends the name
Suffix(name) ==
    LET i == LastDot(name)
    IN  IF 1 < i /\ i < Len(name) THEN SubSeq(name, i, Len(name)) ELSE ""

\* PurePath.stem
Stem(name) ==
    LET i == LastDot(name)
    IN  IF 1 < i /\ i < Len(name) THEN SubSeq(name, 1, i - 1) ELSE name

Digits == "0123456789"

\* str(n) for n >= 0
RECURSIVE Decimal(_)
Decimal(n) ==
    IF n < 10 THEN CharAt(Digits, n + 1)
    ELSE Decimal(n \div 10) \o CharAt(Digits, (n % 10) + 1)

\* CandidateName with the counter started at 0
CandidateName_Counter0(name, counter) == Stem(name) \o "_" \o Decimal(counter - 1) \o Suffix(name)

\* f"{stem}_{counter}{suffix}"
CandidateName(name, counter) == Stem(name) \o "_" \o Decimal(counter) \o Suffix(name)

(***************************************************************************)
(* The category table.                                                     *)
(***************************************************************************)
SUBDIR_KEYS ==
    << "01_GETTING_STARTED", "02_ARCHITECTURE", "03_DEVELOPMENT", "04_DEPLOYMENT",
       "05_SECURITY", "06_API_REFERENCE", "07_SERVICES", "08_TESTING",
       "09_AUDITS_AND_REPORTS", "10_GUIDES_AND_TUTORIALS", "11_MIGRATION_GUIDES",
       "12_REFERENCE" >>

SUBDIR_MAPPINGS ==
    [k \in {SUBDIR_KEYS[i] : i \in 1..Len(SUBDIR_KEYS)} |->
        CASE k = "01_GETTING_STARTED"      -> "+=== GETTING_STARTED ===+"
          [] k = "02_ARCHITECTURE"         -> "|=== ARCHITECTURE ===|"
          [] k = "03_DEVELOPMENT"          -> "|=== DEVELOPMENT ===|"
          [] k = "04_DEPLOYMENT"           -> "|=== DEPLOYMENT ===|"
          [] k = "05_SECURITY"             -> "|=== SECURITY ===|"
          [] k = "06_API_REFERENCE"        -> "|=== API_REFERENCE ===|"
          [] k = "07_SERVICES"             -> "|=== SERVICES ===|"
          [] k = "08_TESTING"              -> "|=== TESTING ===|"
          [] k = "09_AUDITS_AND_REPORTS"   -> "|=== AUDITS_AND_REPORTS ===|"
          [] k = "10_GUIDES_AND_TUTORIALS" -> "|=== GUIDES_AND_TUTORIALS ===|"
          [] k = "11_MIGRATION_GUIDES"     -> "|=== MIGRATION_GUIDES ===|"
          [] k = "12_REFERENCE"            -> "+=== REFERENCE ===+"]

(***************************************************************************)
(* Paths.                                                                  *)
(***************************************************************************)
old_panda_core == << "|=== PANDA_CORE ===|" >>
new_panda_core == << "|=== PANDA_CORE ===|" >>
docs_dir == << "docs" >>

NoPath == << >>

\* Path.name and Path.parent; the parent of a one-segment relative path is "."
\* whose name is the empty string
PathName(p) == IF Len(p) = 0 THEN "" ELSE p[Len(p)]
PathParent(p) == SubSeq(p, 1, Len(p) - 1)

IsPrefix(p, q) == Len(p) <= Len(q) /\ SubSeq(q, 1, Len(p)) = p
IsStrictPrefix(p, q) == Len(p) < Len(q) /\ SubSeq(q, 1, Len(p)) = p

\* Path.relative_to
RelativeTo(p, base) == SubSeq(p, Len(base) + 1, Len(p))

(***************************************************************************)
(* map_file_to_category                                                    *)
(***************************************************************************)
\* RootLevelCategory with the "api" test placed before the "security" test
RootLevelCategory_ApiBeforeSecurity(file_name) ==
    IF Contains(file_name, "getting_started") \/ Contains(file_name, "setup")
          \/ Contains(file_name, "environment")
    THEN SUBDIR_MAPPINGS["01_GETTING_STARTED"]
    ELSE IF Contains(file_name, "architecture")
    THEN SUBDIR_MAPPINGS["02_ARCHITECTURE"]
    ELSE IF Contains(file_name, "development") \/ Contains(file_name, "build")
          \/ Contains(file_name, "storybook") \/ Contains(file_name, "wiki")
    THEN SUBDIR_MAPPINGS["03_DEVELOPMENT"]
    ELSE IF Contains(file_name, "deployment")
    THEN SUBDIR_MAPPINGS["04_DEPLOYMENT"]
    ELSE IF Contains(file_name, "api")
    THEN SUBDIR_MAPPINGS["06_API_REFERENCE"]
    ELSE IF Contains(file_name, "security")
    THEN SUBDIR_MAPPINGS["05_SECURITY"]
    ELSE IF Contains(file_name, "service")
    THEN SUBDIR_MAPPINGS["07_SERVICES"]
    ELSE IF Contains(file_name, "test")
    THEN SUBDIR_MAPPINGS["08_TESTING"]
    ELSE IF Contains(file_name, "audit") \/ Contains(file_name, "cache")
          \/ Contains(file_name, "dead_code")
    THEN SUBDIR_MAPPINGS["09_AUDITS_AND_REPORTS"]
    ELSE IF Contains(file_name, "guide") \/ Contains(file_name, "resend")
          \/ Contains(file_name, "auto_config")
    THEN SUBDIR_MAPPINGS["10_GUIDES_AND_TUTORIALS"]
    ELSE IF Contains(file_name, "migration")
    THEN SUBDIR_MAPPINGS["11_MIGRATION_GUIDES"]
    ELSE SUBDIR_MAPPINGS["12_REFERENCE"]

\* the branch for files directly under docs/ (file_name is lower-cased)
RootLevelCategory(file_name) ==
    IF Contains(file_name, "getting_started") \/ Contains(file_name, "setup")
          \/ Contains(file_name, "environment")
    THEN SUBDIR_MAPPINGS["01_GETTING_STARTED"]
    ELSE IF Contains(file_name, "architecture")
    THEN SUBDIR_MAPPINGS["02_ARCHITECTURE"]
    ELSE IF Contains(file_name, "development") \/ Contains(file_name, "build")
          \/ Contains(file_name, "storybook") \/ Contains(file_name, "wiki")
    THEN SUBDIR_MAPPINGS["03_DEVELOPMENT"]
    ELSE IF Contains(file_name, "deployment")
    THEN SUBDIR_MAPPINGS["04_DEPLOYMENT"]
    ELSE IF Contains(file_name, "security")
    THEN SUBDIR_MAPPINGS["05_SECURITY"]
    ELSE IF Contains(file_name, "api")
    THEN SUBDIR_MAPPINGS["06_API_REFERENCE"]
    ELSE IF Contains(file_name, "service")
    THEN SUBDIR_MAPPINGS["07_SERVICES"]
    ELSE IF Contains(file_name, "test")
    THEN SUBDIR_MAPPINGS["08_TESTING"]
    ELSE IF Contains(file_name, "audit") \/ Contains(file_name, "cache")
          \/ Contains(file_name, "dead_code")
    THEN SUBDIR_MAPPINGS["09_AUDITS_AND_REPORTS"]
    ELSE IF Contains(file_name, "guide") \/ Contains(file_name, "resend")
          \/ Contains(file_name, "auto_config")
    THEN SUBDIR_MAPPINGS["10_GUIDES_AND_TUTORIALS"]
    ELSE IF Contains(file_name, "migration")
    THEN SUBDIR_MAPPINGS["11_MIGRATION_GUIDES"]
    ELSE IF Contains(file_name, "product") \/ Contains(file_name, "reference")
          \/ Contains(file_name, "scrollbar") \/ Contains(file_name, "analytics")
          \/ Contains(file_name, "cloudflare") \/ Contains(file_name, "chat")
    THEN SUBDIR_MAPPINGS["12_REFERENCE"]
    ELSE SUBDIR_MAPPINGS["12_REFERENCE"]

\* SubdirCategory deciding by the keywords of the file name
SubdirCategory_ByFileName(dir_name, file_name) == RootLevelCategory(file_name)

\* SubdirCategory with branches for testing, audits and migration
SubdirCategory_AllTwelve(dir_name, file_name) ==
    IF dir_name = "getting-started" THEN SUBDIR_MAPPINGS["01_GETTING_STARTED"]
    ELSE IF dir_name = "architecture" THEN SUBDIR_MAPPINGS["02_ARCHITECTURE"]
    ELSE IF dir_name = "development" THEN SUBDIR_MAPPINGS["03_DEVELOPMENT"]
    ELSE IF dir_name = "deployment" THEN SUBDIR_MAPPINGS["04_DEPLOYMENT"]
    ELSE IF dir_name = "security" THEN SUBDIR_MAPPINGS["05_SECURITY"]
    ELSE IF dir_name = "api" THEN SUBDIR_MAPPINGS["06_API_REFERENCE"]
    ELSE IF dir_name = "services" THEN SUBDIR_MAPPINGS["07_SERVICES"]
    ELSE IF dir_name = "testing" THEN SUBDIR_MAPPINGS["08_TESTING"]
    ELSE IF dir_name = "audits" THEN SUBDIR_MAPPINGS["09_AUDITS_AND_REPORTS"]
    ELSE IF dir_name = "guides" THEN SUBDIR_MAPPINGS["10_GUIDES_AND_TUTORIALS"]
    ELSE IF dir_name = "migration" THEN SUBDIR_MAPPINGS["11_MIGRATION_GUIDES"]
    ELSE SUBDIR_MAPPINGS["12_REFERENCE"]

\* the branch for files in a subdirectory of docs/ (dir_name is lower-cased)
SubdirCategory(dir_name, file_name) ==
    IF dir_name = "getting-started" THEN SUBDIR_MAPPINGS["01_GETTING_STARTED"]
    ELSE IF dir_name = "architecture" THEN SUBDIR_MAPPINGS["02_ARCHITECTURE"]
    ELSE IF dir_name = "development" THEN SUBDIR_MAPPINGS["03_DEVELOPMENT"]
    ELSE IF dir_name = "deployment" THEN SUBDIR_MAPPINGS["04_DEPLOYMENT"]
    ELSE IF dir_name = "security" THEN SUBDIR_MAPPINGS["05_SECURITY"]
    ELSE IF dir_name = "api" THEN SUBDIR_MAPPINGS["06_API_REFERENCE"]
    ELSE IF dir_name = "services" THEN SUBDIR_MAPPINGS["07_SERVICES"]
    ELSE IF dir_name = "guides" THEN SUBDIR_MAPPINGS["10_GUIDES_AND_TUTORIALS"]
    ELSE IF dir_name = "reference" THEN SUBDIR_MAPPINGS["12_REFERENCE"]
    ELSE SUBDIR_MAPPINGS["12_REFERENCE"]

\* map_file_to_category without the two calls of lower()
map_file_to_category_CaseSensitive(file_path, docs) ==
    LET relative_path == RelativeTo(file_path, docs)
        dir_name  == PathName(PathParent(relative_path))
        file_name == PathName(relative_path)
    IN  IF dir_name = "." \/ dir_name = ""
        THEN RootLevelCategory(file_name)
        ELSE SubdirCategory(dir_name, file_name)

\* map_file_to_category without the two final else branches: None is returned
map_file_to_category_NoFallback(file_path, docs) ==
    LET relative_path == RelativeTo(file_path, docs)
        dir_name  == Lower(PathName(PathParent(relative_path)))
        file_name == Lower(PathName(relative_path))
    IN  IF dir_name = "." \/ dir_name = ""
        THEN IF RootLevelCategory(file_name) = SUBDIR_MAPPINGS["12_REFERENCE"]
                /\ ~\E kw \in {"product", "reference", "scrollbar", "analytics",
                                "cloudflare", "chat"} : Contains(file_name, kw)
             THEN "None"
             ELSE RootLevelCategory(file_name)
        ELSE IF SubdirCategory(dir_name, file_name) = SUBDIR_MAPPINGS["12_REFERENCE"]
                /\ dir_name # "reference"
             THEN "None"
             ELSE SubdirCategory(dir_name, file_name)

map_file_to_category(file_path, docs) ==
    LET relative_path == RelativeTo(file_path, docs)
        \* dir_name and file_name are computed once, then the branches taken
        returned ==
            { IF dir_name = "." \/ dir_name = ""
              THEN RootLevelCategory(file_name)
              ELSE SubdirCategory(dir_name, file_name) :
                  dir_name  \in {Lower(PathName(PathParent(relative_path)))},
                  file_name \in {Lower(PathName(relative_path))} }
    IN  CHOOSE category \in returned : TRUE

(***************************************************************************)
(* The file tree.  fs maps each existing path (relative to root_dir) to    *)
(* its node: a directory, or a regular file whose id is the path the       *)
(* document had in the initial tree, so that a copy of a document is       *)
(* recognisable.  root_dir itself (the empty path) always exists.          *)
(* readonly is the set of directories whose entries the process may not    *)
(* add, remove or rename (no write permission): this is what makes a       *)
(* rename, mkdir, move or rmdir raise.                                     *)
(***************************************************************************)
VARIABLES
    fs,              \* the file tree
    readonly,        \* directories without write permission
    fs_initial,      \* the tree before the first invocation
    fs_start,        \* the tree when the current invocation of main() began
    prev_done,       \* the previous invocation ran to completion
    runs,            \* number of invocations of main() so far
    pc,              \* position in main()
    panda_core,      \* main's panda_core, NoPath while unassigned
    step2_i,         \* index of the Step 2 loop in SUBDIR_MAPPINGS.items()
    all_files,       \* Step 3: entries of all_files not yet iterated
    file_path,       \* Step 3 loop variable
    target_category,
    target_dir,
    target_file,
    counter,
    moved_count,
    error_count,
    all_dirs,        \* Step 4: entries of all_dirs not yet iterated
    removed_count,
    exit_code        \* exit status of the process, -1 while it runs

vars == << fs, readonly, fs_initial, fs_start, prev_done, runs, pc, panda_core,
           step2_i, all_files, file_path, target_category, target_dir, target_file,
           counter, moved_count, error_count, all_dirs, removed_count, exit_code >>

DirNode == [kind |-> "dir", id |-> NoPath]
FileNode(p) == [kind |-> "file", id |-> p]

Exists(f, p) == p = NoPath \/ p \in DOMAIN f
IsDir(f, p) == p = NoPath \/ (p \in DOMAIN f /\ f[p].kind = "dir")
IsFile(f, p) == p \in DOMAIN f /\ f[p].kind = "file"
Writable(p) == p \notin readonly

\* the entries of directory d (Path.iterdir)
Children(f, d) == {q \in DOMAIN f : Len(q) = Len(d) + 1 /\ IsPrefix(d, q)}
\* p and everything below it
Subtree(f, p) == {q \in DOMAIN f : IsPrefix(p, q)}
\* everything below d (Path.rglob("*"))
Descendants(f, d) == {q \in DOMAIN f : IsStrictPrefix(d, q)}

Without(f, S) == [p \in DOMAIN f \ S |-> f[p]]

\* f with a copy of the subtree at src placed at dst
Graft(f, src, dst) ==
    LET placed == {dst \o RelativeTo(q, src) : q \in Subtree(f, src)}
    IN  [p \in DOMAIN f \cup placed |->
            IF p \in placed THEN f[src \o RelativeTo(p, dst)] ELSE f[p]]

Failed(f) == [ok |-> FALSE, fs |-> f]
Done(f) == [ok |-> TRUE, fs |-> f]

\* os.rename(src, dst) on a POSIX file system
OsRename(f, src, dst) ==
    IF /\ src \in DOMAIN f
       /\ IsDir(f, PathParent(dst))
       /\ ~IsPrefix(src, dst)
       /\ Writable(PathParent(src)) /\ Writable(PathParent(dst))
       /\ \/ dst \notin DOMAIN f
          \/ IsFile(f, src) /\ IsFile(f, dst)
          \/ IsDir(f, src) /\ IsDir(f, dst) /\ Children(f, dst) = {}
    THEN Done(Without(Graft(Without(f, {dst}), src, dst), Subtree(f, src)))
    ELSE Failed(f)

\* Path.mkdir(parents=True, exist_ok=True)
RECURSIVE Mkdir(_, _)
Mkdir(f, p) ==
    IF IsDir(f, p) THEN Done(f)
    ELSE IF p \in DOMAIN f THEN Failed(f)
    ELSE LET up == Mkdir(f, PathParent(p))
         IN  IF up.ok /\ Writable(PathParent(p))
             THEN Done([q \in DOMAIN up.fs \cup {p} |-> IF q = p THEN DirNode ELSE up.fs[q]])
             ELSE Failed(up.fs)

\* Path.rmdir
Rmdir(f, p) ==
    IF IsDir(f, p) /\ p # NoPath /\ Children(f, p) = {} /\ Writable(PathParent(p))
    THEN Done(Without(f, {p}))
    ELSE Failed(f)

\* shutil.move(src, dst): os.rename, and when that raises OSError the
\* fallback: copy2 + os.unlink for a file, copytree + rmtree for a directory.
\* The fallback is not atomic: when the copy succeeds and the removal of the
\* source raises, the copy stays.
ShutilMove(f, src, dst) ==
    LET real_dst == IF dst \in DOMAIN f /\ IsDir(f, dst) THEN dst \o << PathName(src) >> ELSE dst
        renamed  == OsRename(f, src, real_dst)
        canCopy  == /\ IsDir(f, PathParent(real_dst))
                    /\ ~IsPrefix(src, real_dst)
                    /\ \/ real_dst \notin DOMAIN f /\ Writable(PathParent(real_dst))
                       \/ IsFile(f, src) /\ IsFile(f, real_dst)
        copied   == Graft(f, src, real_dst)
    IN  IF real_dst # dst /\ real_dst \in DOMAIN f THEN Failed(f)
        ELSE IF renamed.ok THEN renamed
        ELSE IF src \notin DOMAIN f \/ ~canCopy THEN Failed(f)
        ELSE IF Writable(PathParent(src)) THEN Done(Without(copied, Subtree(f, src)))
        ELSE IF IsDir(f, src)
             THEN Failed(Without(copied, Subtree(f, src) \ {src}))
             ELSE Failed(copied)

\* len(str(p)) up to the constant len(str(root_dir))
RECURSIVE PathStrLen(_)
PathStrLen(p) ==
    IF Len(p) = 0 THEN 0 ELSE PathStrLen(PathParent(p)) + 1 + Len(p[Len(p)])

(***************************************************************************)
(* Initial trees.  docs/ holds at most MaxDocs entries of DocPool (with    *)
(* the directories above them), the container is absent or populated,      *)
(* and at most MaxReadOnly existing directories of ReadOnlyPool *)
(* are read-only.                                                          *)
(***************************************************************************)
DocPool ==
    { << "docs", "security-hardening.md" >>,
      << "docs", "report.md" >>,
      << "docs", "reference", "report.md" >>,
      << "docs", "architecture", "overview.md" >>,
      << "docs", "a", "b", "c", "file.md" >>,
      << "docs", "a", "b", "d", "other.txt" >>,
      << "docs", "notes.md", "inner.md" >> }

Decorated(key) == new_panda_core \o << SUBDIR_MAPPINGS[key] >>
Legacy(key) == new_panda_core \o << key >>

\* a container: the files and the (possibly empty) directories it holds
NoContainer == [files |-> {}, dirs |-> {}]
PopulatedContainer ==
    [files |-> { Legacy("05_SECURITY") \o << "old.md" >>,
                 Decorated("12_REFERENCE") \o << "report.md" >> },
     dirs  |-> { Legacy("06_API_REFERENCE"), Decorated("06_API_REFERENCE") }]

ContainerPool == {NoContainer, PopulatedContainer}

ReadOnlyPool == {docs_dir, new_panda_core}

Prefixes(p) == {SubSeq(p, 1, n) : n \in 1..Len(p)}

\* the tree holding the given files and directories and every directory above them
MakeTree(files, dirs) ==
    LET all == UNION {Prefixes(p) : p \in files \cup dirs}
    IN  [p \in all |-> IF p \in files THEN FileNode(p) ELSE DirNode]

StartOfRun ==
    /\ pc = "step1"
    /\ panda_core = NoPath
    /\ step2_i = 1
    /\ all_files = {}
    /\ file_path = NoPath
    /\ target_category = ""
    /\ target_dir = NoPath
    /\ target_file = NoPath
    /\ counter = 0
    /\ moved_count = 0
    /\ error_count = 0
    /\ all_dirs = {}
    /\ removed_count = 0
    /\ exit_code = -1

Init ==
    /\ \E docs \in SUBSET DocPool, withDocs \in BOOLEAN, c \in ContainerPool :
          /\ Cardinality(docs) <= MaxDocs
          /\ withDocs \/ docs = {}
          /\ fs = MakeTree(docs \cup c.files, c.dirs \cup (IF withDocs THEN {docs_dir} ELSE {}))
    /\ readonly \in SUBSET ReadOnlyPool
    /\ Cardinality(readonly) <= MaxReadOnly
    /\ \A d \in readonly : IsDir(fs, d)
    /\ fs_initial = fs
    /\ fs_start = fs
    /\ prev_done = FALSE
    /\ runs = 1
    /\ StartOfRun

(***************************************************************************)
(* main()                                                                  *)
(***************************************************************************)
\* Step1_Abort without the return
Step1_Abort_FallThrough ==
    /\ pc' = "step2"
    /\ panda_core' = new_panda_core
    /\ UNCHANGED exit_code

\* Step 1, reached with neither directory present: main returns
Step1_Abort ==
    /\ pc' = "done"
    /\ panda_core' = NoPath
    /\ exit_code' = 0

\* Step 1: rename the main directory
Step1 ==
    /\ pc = "step1"
    /\ IF Exists(fs, old_panda_core)
       THEN IF Exists(fs, new_panda_core)
            THEN /\ panda_core' = new_panda_core
                 /\ fs' = fs
                 /\ pc' = "step2"
                 /\ UNCHANGED exit_code
            ELSE LET r == OsRename(fs, old_panda_core, new_panda_core)
                 IN  /\ fs' = r.fs
                     /\ panda_core' = IF r.ok THEN new_panda_core ELSE old_panda_core
                     /\ pc' = "step2"
                     /\ UNCHANGED exit_code
       ELSE IF Exists(fs, new_panda_core)
            THEN /\ panda_core' = new_panda_core
                 /\ fs' = fs
                 /\ pc' = "step2"
                 /\ UNCHANGED exit_code
            ELSE /\ fs' = fs
                 /\ Step1_Abort
    /\ UNCHANGED << readonly, fs_initial, fs_start, prev_done, runs, step2_i, all_files,
                    file_path, target_category, target_dir, target_file, counter,
                    moved_count, error_count, all_dirs, removed_count >>

\* Step2 without the test of new_path.exists()
Step2_NoTargetCheck ==
    /\ pc = "step2"
    /\ LET old_name == SUBDIR_KEYS[step2_i]
           new_name == SUBDIR_MAPPINGS[old_name]
           old_path == panda_core \o << old_name >>
           new_path == panda_core \o << new_name >>
       IN  fs' = IF Exists(fs, old_path)
                 THEN OsRename(fs, old_path, new_path).fs
                 ELSE fs
    /\ IF step2_i < Len(SUBDIR_KEYS)
       THEN step2_i' = step2_i + 1 /\ pc' = "step2"
       ELSE step2_i' = step2_i /\ pc' = "step3"
    /\ UNCHANGED << readonly, fs_initial, fs_start, prev_done, runs, panda_core, all_files,
                    file_path, target_category, target_dir, target_file, counter,
                    moved_count, error_count, all_dirs, removed_count, exit_code >>

\* Step 2: one iteration of the loop over SUBDIR_MAPPINGS.items()
Step2 ==
    /\ pc = "step2"
    /\ LET old_name == SUBDIR_KEYS[step2_i]
           new_name == SUBDIR_MAPPINGS[old_name]
           old_path == panda_core \o << old_name >>
           new_path == panda_core \o << new_name >>
       IN  fs' = IF Exists(fs, old_path) /\ ~Exists(fs, new_path)
                 THEN OsRename(fs, old_path, new_path).fs
                 ELSE fs
    /\ IF step2_i < Len(SUBDIR_KEYS)
       THEN step2_i' = step2_i + 1 /\ pc' = "step2"
       ELSE step2_i' = step2_i /\ pc' = "step3"
    /\ UNCHANGED << readonly, fs_initial, fs_start, prev_done, runs, panda_core, all_files,
                    file_path, target_category, target_dir, target_file, counter,
                    moved_count, error_count, all_dirs, removed_count, exit_code >>

\* fnmatch of a name against "*.md" (case-sensitive on POSIX)
MatchesMd(name) == EndsWith(name, ".md")

\* docs_dir.rglob("*.md"): every entry below docs/, file or directory, whose
\* name matches
RglobMd(f) == {p \in Descendants(f, docs_dir) : MatchesMd(PathName(p))}

\* Step 3: docs/ missing, or the list of candidates is taken
Step3_Enumerate ==
    /\ pc = "step3"
    /\ IF ~Exists(fs, docs_dir)
       THEN /\ pc' = "step4"
            /\ UNCHANGED << all_files, moved_count, error_count >>
       ELSE /\ moved_count' = 0
            /\ error_count' = 0
            /\ all_files' = RglobMd(fs)
            /\ pc' = "loop3"
    /\ UNCHANGED << fs, readonly, fs_initial, fs_start, prev_done, runs, panda_core, step2_i,
                    file_path, target_category, target_dir, target_file, counter,
                    all_dirs, removed_count, exit_code >>

\* Step 3: the next candidate is classified and its category directory made.
\* rglob lists a directory before what lies below it; the order is otherwise
\* that of the directory listings, which is not determined.
Step3_Mkdir ==
    /\ pc = "loop3"
    /\ \E f \in all_files :
          /\ ~\E g \in all_files : IsStrictPrefix(g, f)
          /\ \E cat \in {map_file_to_category(f, docs_dir)} :
             \E dir \in {panda_core \o << cat >>} :
             \E r \in {Mkdir(fs, dir)} :
                 /\ file_path' = f
                 /\ all_files' = all_files \ {f}
                 /\ target_category' = cat
                 /\ target_dir' = dir
                 /\ fs' = r.fs
                 /\ IF r.ok
                    THEN /\ target_file' = dir \o << PathName(f) >>
                         /\ counter' = 1
                         /\ pc' = "probe"
                         /\ UNCHANGED error_count
                    ELSE /\ error_count' = error_count + 1
                         /\ pc' = "loop3"
                         /\ UNCHANGED << target_file, counter >>
    /\ UNCHANGED << readonly, fs_initial, fs_start, prev_done, runs, panda_core, step2_i,
                    moved_count, all_dirs, removed_count, exit_code >>

\* Step3_Probe with "if" in place of "while": the new name is not probed
Step3_Probe_Once ==
    /\ pc = "probe"
    /\ counter = 1
    /\ Exists(fs, target_file)
    /\ target_file' = target_dir \o << CandidateName(PathName(file_path), counter) >>
    /\ counter' = counter + 1
    /\ pc' = "move"
    /\ UNCHANGED << fs, readonly, fs_initial, fs_start, prev_done, runs, panda_core, step2_i,
                    all_files, file_path, target_category, target_dir, moved_count,
                    error_count, all_dirs, removed_count, exit_code >>

\* Step3_Probe without  counter += 1
Step3_Probe_NoIncrement ==
    /\ pc = "probe"
    /\ Exists(fs, target_file)
    /\ target_file' = target_dir \o << CandidateName(PathName(file_path), counter) >>
    /\ counter' = counter
    /\ UNCHANGED << fs, readonly, fs_initial, fs_start, prev_done, runs, pc, panda_core,
                    step2_i, all_files, file_path, target_category, target_dir,
                    moved_count, error_count, all_dirs, removed_count, exit_code >>

\* Step 3: one iteration of  while target_file.exists()
Step3_Probe ==
    /\ pc = "probe"
    /\ Exists(fs, target_file)
    /\ target_file' = target_dir \o << CandidateName(PathName(file_path), counter) >>
    /\ counter' = counter + 1
    /\ UNCHANGED << fs, readonly, fs_initial, fs_start, prev_done, runs, pc, panda_core,
                    step2_i, all_files, file_path, target_category, target_dir,
                    moved_count, error_count, all_dirs, removed_count, exit_code >>

\* Step 3: the loop is left with a free name
Step3_Chosen ==
    /\ pc = "probe"
    /\ ~Exists(fs, target_file)
    /\ pc' = "move"
    /\ UNCHANGED << fs, readonly, fs_initial, fs_start, prev_done, runs, panda_core, step2_i,
                    all_files, file_path, target_category, target_dir, target_file, counter,
                    moved_count, error_count, all_dirs, removed_count, exit_code >>

\* Step 3: shutil.move, counted as moved or as an error
Step3_Move ==
    /\ pc = "move"
    /\ LET r == ShutilMove(fs, file_path, target_file)
       IN  /\ fs' = r.fs
           /\ IF r.ok
              THEN moved_count' = moved_count + 1 /\ UNCHANGED error_count
              ELSE error_count' = error_count + 1 /\ UNCHANGED moved_count
    /\ pc' = "loop3"
    /\ UNCHANGED << readonly, fs_initial, fs_start, prev_done, runs, panda_core, step2_i,
                    all_files, file_path, target_category, target_dir, target_file, counter,
                    all_dirs, removed_count, exit_code >>

\* Step 3: the loop over all_files ends
Step3_Done ==
    /\ pc = "loop3"
    /\ all_files = {}
    /\ pc' = "step4"
    /\ UNCHANGED << fs, readonly, fs_initial, fs_start, prev_done, runs, panda_core, step2_i,
                    all_files, file_path, target_category, target_dir, target_file, counter,
                    moved_count, error_count, all_dirs, removed_count, exit_code >>

\* Step 4: docs/ missing, or the list of entries below docs/ is taken
Step4_Enumerate ==
    /\ pc = "step4"
    /\ IF Exists(fs, docs_dir)
       THEN /\ all_dirs' = Descendants(fs, docs_dir)
            /\ removed_count' = 0
            /\ pc' = "loop4"
       ELSE /\ pc' = "step5"
            /\ UNCHANGED << all_dirs, removed_count >>
    /\ UNCHANGED << fs, readonly, fs_initial, fs_start, prev_done, runs, panda_core, step2_i,
                    all_files, file_path, target_category, target_dir, target_file, counter,
                    moved_count, error_count, exit_code >>

\* NextInOrder without reverse=True
NextInOrder_Ascending(S) == {p \in S : \A q \in S : PathStrLen(q) >= PathStrLen(p)}

\* the entries sorted() with key len(str(p)), reverse=True, may put first:
\* those of greatest length (the order among equal lengths is that of rglob)
NextInOrder(S) == {p \in S : \A q \in S : PathStrLen(q) <= PathStrLen(p)}

\* Step 4: one iteration of the loop over all_dirs
Step4_Visit ==
    /\ pc = "loop4"
    /\ \E dir_path \in NextInOrder(all_dirs) :
          /\ all_dirs' = all_dirs \ {dir_path}
          /\ IF dir_path \in DOMAIN fs /\ IsDir(fs, dir_path) /\ Children(fs, dir_path) = {}
             THEN LET r == Rmdir(fs, dir_path)
                  IN  /\ fs' = r.fs
                      /\ removed_count' = IF r.ok THEN removed_count + 1 ELSE removed_count
             ELSE UNCHANGED << fs, removed_count >>
    /\ UNCHANGED << readonly, fs_initial, fs_start, prev_done, runs, pc, panda_core, step2_i,
                    all_files, file_path, target_category, target_dir, target_file, counter,
                    moved_count, error_count, exit_code >>

\* Step 4: the loop over all_dirs ends
Step4_Done ==
    /\ pc = "loop4"
    /\ all_dirs = {}
    /\ pc' = "step5"
    /\ UNCHANGED << fs, readonly, fs_initial, fs_start, prev_done, runs, panda_core, step2_i,
                    all_files, file_path, target_category, target_dir, target_file, counter,
                    moved_count, error_count, all_dirs, removed_count, exit_code >>

\* Step5 removing docs/ with all that is left below it
Step5_Rmtree ==
    /\ pc = "step5"
    /\ fs' = Without(fs, Subtree(fs, docs_dir))
    /\ pc' = "done"
    /\ exit_code' = 0
    /\ UNCHANGED << readonly, fs_initial, fs_start, prev_done, runs, panda_core, step2_i,
                    all_files, file_path, target_category, target_dir, target_file, counter,
                    moved_count, error_count, all_dirs, removed_count >>

\* Step 5: docs/ is removed when nothing is left below it; main returns and
\* the interpreter exits with status 0
Step5 ==
    /\ pc = "step5"
    /\ fs' = IF Exists(fs, docs_dir) /\ Descendants(fs, docs_dir) = {}
             THEN Rmdir(fs, docs_dir).fs
             ELSE fs
    /\ pc' = "done"
    /\ exit_code' = 0
    /\ UNCHANGED << readonly, fs_initial, fs_start, prev_done, runs, panda_core, step2_i,
                    all_files, file_path, target_category, target_dir, target_file, counter,
                    moved_count, error_count, all_dirs, removed_count >>

\* main() is invoked again
Invoke ==
    /\ runs < MaxRuns
    /\ runs' = runs + 1
    /\ fs_start' = fs
    /\ panda_core' = NoPath
    /\ step2_i' = 1
    /\ all_files' = {}
    /\ file_path' = NoPath
    /\ target_category' = ""
    /\ target_dir' = NoPath
    /\ target_file' = NoPath
    /\ counter' = 0
    /\ moved_count' = 0
    /\ error_count' = 0
    /\ all_dirs' = {}
    /\ removed_count' = 0
    /\ exit_code' = -1
    /\ pc' = "step1"
    /\ UNCHANGED << fs, readonly, fs_initial >>

\* the process is stopped between two operations and main() is invoked again
Interrupt ==
    /\ pc \notin {"done", "classify", "classified"}
    /\ prev_done' = FALSE
    /\ Invoke

\* main() is invoked again after a run that completed
Rerun ==
    /\ pc = "done"
    /\ prev_done' = TRUE
    /\ Invoke

(***************************************************************************)
(* map_file_to_category on its own: the inputs are paths below docs/ whose *)
(* file name joins at most MaxFrags fragments, in any of RelDirs.          *)
(***************************************************************************)
Keywords ==
    { "getting_started", "setup", "environment", "architecture", "development", "build",
      "storybook", "wiki", "deployment", "security", "api", "service", "test", "audit",
      "cache", "dead_code", "guide", "resend", "auto_config", "migration", "product",
      "reference", "scrollbar", "analytics", "cloudflare", "chat" }

Fragments ==
    { "setup", "architecture", "build", "deployment", "security", "api", "service", "test",
      "audit", "guide", "migration", "product", "misc", "hardening", "endpoints",
      "SECURITY", "Api", "latest" }

RECURSIVE Joined(_)
Joined(n) ==
    IF n = 1 THEN Fragments
    ELSE {s \o "-" \o t : s \in Joined(n - 1), t \in Fragments}

RootNames == {s \o ".md" : s \in Keywords \cup UNION {Joined(n) : n \in 1..MaxFrags}}
NestedNames == {s \o ".md" : s \in Keywords \cup Fragments}

RelDirs ==
    { << "getting-started" >>, << "architecture" >>, << "development" >>, << "deployment" >>,
      << "security" >>, << "api" >>, << "services" >>, << "guides" >>, << "reference" >>,
      << "testing" >>, << "audits" >>, << "migration" >>, << "misc" >>, << "api-v2" >>,
      << "API" >>, << "Security" >>, << "api", "v2" >>, << "v2", "api" >>,
      << "security", "api" >> }

ClassifierInputs ==
    {docs_dir \o << n >> : n \in RootNames}
        \cup {docs_dir \o d \o << n >> : d \in RelDirs, n \in NestedNames}

InitClassify ==
    /\ fs = MakeTree({}, {})
    /\ readonly = {}
    /\ fs_initial = fs
    /\ fs_start = fs
    /\ prev_done = FALSE
    /\ runs = 1
    /\ panda_core = NoPath
    /\ step2_i = 1
    /\ all_files = {}
    /\ file_path \in ClassifierInputs
    /\ target_category = ""
    /\ target_dir = NoPath
    /\ target_file = NoPath
    /\ counter = 0
    /\ moved_count = 0
    /\ error_count = 0
    /\ all_dirs = {}
    /\ removed_count = 0
    /\ exit_code = -1
    /\ pc = "classify"

\* target_category = map_file_to_category(file_path, docs_dir)
Classify ==
    /\ pc = "classify"
    /\ target_category' = map_file_to_category(file_path, docs_dir)
    /\ pc' = "classified"
    /\ UNCHANGED << fs, readonly, fs_initial, fs_start, prev_done, runs, panda_core, step2_i,
                    all_files, file_path, target_dir, target_file, counter, moved_count,
                    error_count, all_dirs, removed_count, exit_code >>

NextClassify == Classify

SpecClassify == InitClassify /\ [][NextClassify]_vars

Next ==
    \/ Step1
    \/ Step2
    \/ Step3_Enumerate
    \/ Step3_Mkdir
    \/ Step3_Probe
    \/ Step3_Chosen
    \/ Step3_Move
    \/ Step3_Done
    \/ Step4_Enumerate
    \/ Step4_Visit
    \/ Step4_Done
    \/ Step5
    \/ Interrupt
    \/ Rerun

Spec == Init /\ [][Next]_vars

\* one invocation of main() with nothing else touching the tree: the
\* interpreter always takes the next step of the program
RunStep ==
    \/ Step1
    \/ Step2
    \/ Step3_Enumerate
    \/ Step3_Mkdir
    \/ Step3_Probe
    \/ Step3_Chosen
    \/ Step3_Move
    \/ Step3_Done
    \/ Step4_Enumerate
    \/ Step4_Visit
    \/ Step4_Done
    \/ Step5

SpecRun == Init /\ [][RunStep]_vars /\ WF_vars(RunStep)

(***************************************************************************)
(* Properties of map_file_to_category, checked under SpecClassify.         *)
(***************************************************************************)
CategoryNames == {SUBDIR_MAPPINGS[k] : k \in DOMAIN SUBDIR_MAPPINGS}

\* the directory of file_path relative to docs/, and its file name
RelDirOf(p) == PathParent(RelativeTo(p, docs_dir))
AtRootLevel(p) == RelDirOf(p) = << >>

\* the rules of the root-level branch, in their order
Rules ==
    << [kws |-> {"getting_started", "setup", "environment"}, key |-> "01_GETTING_STARTED"],
       [kws |-> {"architecture"},                            key |-> "02_ARCHITECTURE"],
       [kws |-> {"development", "build", "storybook", "wiki"}, key |-> "03_DEVELOPMENT"],
       [kws |-> {"deployment"},                              key |-> "04_DEPLOYMENT"],
       [kws |-> {"security"},                                key |-> "05_SECURITY"],
       [kws |-> {"api"},                                     key |-> "06_API_REFERENCE"],
       [kws |-> {"service"},                                 key |-> "07_SERVICES"],
       [kws |-> {"test"},                                    key |-> "08_TESTING"],
       [kws |-> {"audit", "cache", "dead_code"},             key |-> "09_AUDITS_AND_REPORTS"],
       [kws |-> {"guide", "resend", "auto_config"},          key |-> "10_GUIDES_AND_TUTORIALS"],
       [kws |-> {"migration"},                               key |-> "11_MIGRATION_GUIDES"],
       [kws |-> {"product", "reference", "scrollbar", "analytics", "cloudflare", "chat"},
                                                             key |-> "12_REFERENCE"] >>

\* the rules with a keyword in the lower-cased name, and the least of a set
\* of rule indices
MatchingRules(name) ==
    LET lowered == Lower(name)
    IN  {i \in 1..Len(Rules) : \E kw \in Rules[i].kws : Contains(lowered, kw)}
Least(S) == CHOOSE i \in S : \A j \in S : i <= j

\* the table of known subdirectory names
KnownSubdirs ==
    [d \in {"getting-started", "architecture", "development", "deployment", "security",
            "api", "services", "guides", "reference"} |->
        CASE d = "getting-started" -> "01_GETTING_STARTED"
          [] d = "architecture"    -> "02_ARCHITECTURE"
          [] d = "development"     -> "03_DEVELOPMENT"
          [] d = "deployment"      -> "04_DEPLOYMENT"
          [] d = "security"        -> "05_SECURITY"
          [] d = "api"             -> "06_API_REFERENCE"
          [] d = "services"        -> "07_SERVICES"
          [] d = "guides"          -> "10_GUIDES_AND_TUTORIALS"
          [] d = "reference"       -> "12_REFERENCE"]

\* C4: classification is total: every input is given one of the twelve
\* category display names, and an input that matches no keyword rule and no
\* known subdirectory name (docs/misc.md) is given the catch-all Reference.
C4_ClassificationTotal ==
    pc = "classified" =>
        /\ Cardinality(CategoryNames) = 12
        /\ target_category \in CategoryNames
        /\ (AtRootLevel(file_path) /\ MatchingRules(PathName(file_path)) = {})
              => target_category = "+=== REFERENCE ===+"
        /\ (~AtRootLevel(file_path)
                /\ Lower(PathName(RelDirOf(file_path))) \notin DOMAIN KnownSubdirs)
              => target_category = "+=== REFERENCE ===+"
        /\ file_path = << "docs", "misc.md" >> => target_category = "+=== REFERENCE ===+"

C4_Witness ==
    /\ pc = "classified"
    /\ file_path = << "docs", "misc.md" >>
    /\ target_category = "+=== REFERENCE ===+"

\* C5: for a document directly under docs/ the category is that of the first
\* rule, in the fixed order, one of whose keywords is a substring of the
\* lower-cased file name; a name with keywords of two rules gets the earlier
\* rule's category (security-hardening.md -> Security, "security" with "api"
\* -> Security, "guide" with "migration" -> Guides).
C5_FirstMatchWins ==
    (pc = "classified" /\ AtRootLevel(file_path)) =>
        LET name    == PathName(file_path)
            matches == MatchingRules(name)
        IN  /\ matches # {}
                  => target_category = SUBDIR_MAPPINGS[Rules[Least(matches)].key]
            /\ name = "security-hardening.md" => target_category = "|=== SECURITY ===|"
            /\ name \in {"security-api.md", "api-security.md"}
                  => target_category = "|=== SECURITY ===|"
            /\ name \in {"guide-migration.md", "migration-guide.md"}
                  => target_category = "|=== GUIDES_AND_TUTORIALS ===|"

C5_Witness ==
    /\ pc = "classified"
    /\ file_path = << "docs", "api-security.md" >>
    /\ Cardinality(MatchingRules(PathName(file_path))) = 2
    /\ target_category = "|=== SECURITY ===|"

\* C6: for a document in a subdirectory of docs/ the category is decided by
\* the (lower-cased) name of its immediate parent directory alone, looked up
\* whole in the table of known subdirectory names, whatever the file name
\* and the directories above the parent; a parent name not in the table
\* gives the catch-all Reference.
C6_SubdirectoryRule ==
    (pc = "classified" /\ ~AtRootLevel(file_path)) =>
        LET parent == Lower(PathName(RelDirOf(file_path)))
        IN  /\ target_category =
                  IF parent \in DOMAIN KnownSubdirs
                  THEN SUBDIR_MAPPINGS[KnownSubdirs[parent]]
                  ELSE "+=== REFERENCE ===+"
            /\ file_path = << "docs", "api", "endpoints.md" >>
                  => target_category = "|=== API_REFERENCE ===|"
            /\ RelDirOf(file_path) = << "api", "v2" >> => target_category = "+=== REFERENCE ===+"
            /\ RelDirOf(file_path) = << "api-v2" >> => target_category = "+=== REFERENCE ===+"

C6_Witness ==
    /\ pc = "classified"
    /\ file_path = << "docs", "v2", "api", "security.md" >>
    /\ target_category = "|=== API_REFERENCE ===|"

\* the path with every letter below docs/ in lower case, or in upper case
UpperChar(c) ==
    IF \E i \in 1..Len(LowerLetters) : CharAt(LowerLetters, i) = c
    THEN CharAt(UpperLetters, CHOOSE i \in 1..Len(LowerLetters) : CharAt(LowerLetters, i) = c)
    ELSE c
RECURSIVE UpperFrom(_, _)
UpperFrom(s, i) ==
    IF i > Len(s) THEN ""
    ELSE UpperChar(CharAt(s, i)) \o UpperFrom(s, i + 1)
Upper(s) == UpperFrom(s, 1)
InLowerCase(p) == docs_dir \o [i \in 1..(Len(p) - 1) |-> Lower(p[i + 1])]
InUpperCase(p) == docs_dir \o [i \in 1..(Len(p) - 1) |-> Upper(p[i + 1])]

\* C14: inputs that differ only in letter case get the same category: the
\* category of a path is that of the same path written in lower case, and
\* that of the same path written in upper case.
C14_CaseInsensitive ==
    pc = "classified" =>
        /\ target_category = map_file_to_category(InLowerCase(file_path), docs_dir)
        /\ target_category = map_file_to_category(InUpperCase(file_path), docs_dir)

\* a document whose directory and name are in upper case is classified by
\* its directory, as docs/api/security.md is
C14_Witness ==
    /\ pc = "classified"
    /\ file_path = << "docs", "API", "SECURITY.md" >>
    /\ InLowerCase(file_path) = << "docs", "api", "security.md" >>
    /\ target_category = "|=== API_REFERENCE ===|"

\* the categories without a branch of their own for subdirectories
RootOnlyCategories ==
    { SUBDIR_MAPPINGS["08_TESTING"], SUBDIR_MAPPINGS["09_AUDITS_AND_REPORTS"],
      SUBDIR_MAPPINGS["11_MIGRATION_GUIDES"] }

\* C18: a document in a subdirectory of docs/ is never classified into
\* Testing, Audits-and-Reports or Migration-Guides, whatever the name of its
\* directory (testing, audits and migration included) and the keywords of
\* its file name: in those three directories it goes to Reference.  The
\* three categories are given to root-level documents only: test.md,
\* audit.md and migration.md get them there.
C18_RootOnlyCategories ==
    pc = "classified" =>
        LET name == PathName(file_path)
        IN  /\ ~AtRootLevel(file_path) => target_category \notin RootOnlyCategories
            /\ (~AtRootLevel(file_path) /\ RelDirOf(file_path) \in
                    {<< "testing" >>, << "audits" >>, << "migration" >>})
                  => target_category = SUBDIR_MAPPINGS["12_REFERENCE"]
            /\ target_category \in RootOnlyCategories => AtRootLevel(file_path)
            /\ (AtRootLevel(file_path) /\ name = "test.md")
                  => target_category = SUBDIR_MAPPINGS["08_TESTING"]
            /\ (AtRootLevel(file_path) /\ name = "audit.md")
                  => target_category = SUBDIR_MAPPINGS["09_AUDITS_AND_REPORTS"]
            /\ (AtRootLevel(file_path) /\ name = "migration.md")
                  => target_category = SUBDIR_MAPPINGS["11_MIGRATION_GUIDES"]

\* docs/testing/test.md has been classified, into Reference
C18_Witness ==
    /\ pc = "classified"
    /\ file_path = << "docs", "testing", "test.md" >>
    /\ target_category = "+=== REFERENCE ===+"

(***************************************************************************)
(* Properties of main(), checked under Spec.                               *)
(***************************************************************************)
InContainer(p) == IsPrefix(new_panda_core, p)
InDocs(p) == IsStrictPrefix(docs_dir, p)
\* the paths at which the tree f holds the document (or a copy of it) that
\* was at p0 in the initial tree
PlacesOf(f, p0) == {q \in DOMAIN f : f[q] = FileNode(p0)}
InitialFiles == {p \in DOMAIN fs_initial : IsFile(fs_initial, p)}

\* C1: every move of Step 3 targets a path that does not exist just before
\* the move, and no step replaces what a path holds or loses a file of the
\* container: a file present in a category directory stays, under its name.
C1_NoOverwrite ==
    [][ /\ pc = "move" => target_file \notin DOMAIN fs
        /\ \A p \in DOMAIN fs \cap DOMAIN fs' : fs'[p] = fs[p]
        /\ \A p \in DOMAIN fs :
              (IsFile(fs, p) /\ InContainer(p)) =>
                  \E q \in DOMAIN fs' :
                      InContainer(q) /\ fs'[q] = fs[p] /\ PathName(q) = PathName(p) ]_vars

\* a document has just been moved under a suffixed name next to the file
\* that holds the name it wanted
C1_Witness ==
    /\ pc = "loop3"
    /\ moved_count >= 1
    /\ counter >= 2
    /\ target_file \in DOMAIN fs
    /\ fs[target_file] = FileNode(file_path)
    /\ IsFile(fs, target_dir \o << PathName(file_path) >>)
    /\ fs[target_dir \o << PathName(file_path) >>] # FileNode(file_path)

\* C2: a second run of main() right after a completed run moves nothing and
\* leaves the tree as the first run left it.
C2_Idempotent ==
    (pc = "done" /\ runs >= 2 /\ prev_done) => (fs = fs_start /\ moved_count = 0)

\* the same, for trees whose docs/ directory is writable
C2_IdempotentWritableDocs ==
    (pc = "done" /\ runs >= 2 /\ prev_done /\ docs_dir \notin readonly)
        => (fs = fs_start /\ moved_count = 0)

\* what rglob lists at or above p0, and whether a listed entry can be moved
\* by a run that starts from the initial tree: its directory is writable and
\* the directory of its category exists, or can be made, after Step 2
ListedAbove(p0) == {a \in Prefixes(p0) : InDocs(a) /\ MatchesMd(PathName(a))}
CategoryDirOf(a) == new_panda_core \o << map_file_to_category(a, docs_dir) >>
LegacyOf(d) == {new_panda_core \o << k >> : k \in {k \in DOMAIN SUBDIR_MAPPINGS :
                                                    new_panda_core \o << SUBDIR_MAPPINGS[k] >> = d}}
TargetReady(d) ==
    \/ IsDir(fs_initial, d) /\ d \in DOMAIN fs_initial
    \/ /\ d \notin DOMAIN fs_initial
       /\ Writable(new_panda_core)
       /\ \A l \in LegacyOf(d) : ~IsFile(fs_initial, l)
Movable(a) == Writable(PathParent(a)) /\ TargetReady(CategoryDirOf(a))
MovedWith(p0) == {a \in ListedAbove(p0) : Movable(a)}
TopMoved(p0) == CHOOSE a \in MovedWith(p0) : \A b \in MovedWith(p0) : Len(a) <= Len(b)

\* where a run without interruption leaves the document that starts at p0
EndsWhereUninterrupted(p0, q) ==
    IF ~InDocs(p0) \/ new_panda_core \notin DOMAIN fs_initial \/ MovedWith(p0) = {}
    THEN \/ q = p0
         \/ /\ InContainer(p0) /\ Len(q) = Len(p0)
            /\ q[2] = SUBDIR_MAPPINGS[p0[2]] /\ RelativeTo(q, <<q[1], q[2]>>) = RelativeTo(p0, <<p0[1], p0[2]>>)
    ELSE /\ IsPrefix(CategoryDirOf(TopMoved(p0)), q)
         /\ Len(q) = 3 + Len(p0) - Len(TopMoved(p0))
         /\ RelativeTo(q, SubSeq(q, 1, 3)) = RelativeTo(p0, TopMoved(p0))
         /\ Stem(q[3]) \in {Stem(PathName(TopMoved(p0)))}
                \cup {Stem(PathName(TopMoved(p0))) \o "_" \o Decimal(k) : k \in 1..Cardinality(DOMAIN fs)}

\* C3: when a run was stopped between two operations and main() then ran to
\* completion, every document of the initial tree exists at exactly one
\* path (none lost, duplicated or overwritten) and that path lies in the
\* category directory an uninterrupted run takes it to, the name differing
\* at most by a collision suffix.
C3_Reentrant ==
    (pc = "done" /\ runs >= 2 /\ ~prev_done) =>
        \A p0 \in InitialFiles :
            /\ Cardinality(PlacesOf(fs, p0)) = 1
            /\ \A q \in PlacesOf(fs, p0) : EndsWhereUninterrupted(p0, q)

\* the same, for trees whose docs/ directory is writable, and whatever the
\* runs before the one that completes
C3_ReentrantWritableDocs ==
    (pc = "done" /\ docs_dir \notin readonly) =>
        \A p0 \in InitialFiles :
            /\ Cardinality(PlacesOf(fs, p0)) = 1
            /\ \A q \in PlacesOf(fs, p0) : EndsWhereUninterrupted(p0, q)

\* C7: when the probe loop is left, the chosen name is free in the target
\* directory; it is the wanted name when that is free, and otherwise
\* stem_k.ext for the least k >= 1 that is free.  report.md next to
\* report.md becomes report_1.md, and next to both, report_2.md.
C7_CollisionResolution ==
    pc = "move" =>
        LET desired == PathName(file_path)
            taken   == {PathName(q) : q \in Children(fs, target_dir)}
            chosen  == PathName(target_file)
            nth(k)  == Stem(desired) \o "_" \o Decimal(k) \o Suffix(desired)
        IN  /\ PathParent(target_file) = target_dir
            /\ chosen \notin taken
            /\ desired \notin taken => chosen = desired
            /\ desired \in taken =>
                  \E k \in 1..Cardinality(taken) :
                      /\ chosen = nth(k)
                      /\ \A j \in 1..(k - 1) : nth(j) \in taken
            /\ (desired = "report.md" /\ "report.md" \in taken /\ "report_1.md" \notin taken)
                  => chosen = "report_1.md"
            /\ (desired = "report.md" /\ {"report.md", "report_1.md"} \subseteq taken
                    /\ "report_2.md" \notin taken)
                  => chosen = "report_2.md"

C7_Witness ==
    /\ pc = "move"
    /\ PathName(file_path) = "report.md"
    /\ PathName(target_file) = "report_2.md"
    /\ {"report.md", "report_1.md"} \subseteq {PathName(q) : q \in Children(fs, target_dir)}

\* C8: after Step 4, when no directory of the docs/ tree is read-only, every
\* directory left below docs/ has a file in its subtree (the others were
\* removed), and every file left below docs/ still has all the directories
\* above it (no directory with a file in its subtree was removed).  With
\* only a/b/c/file.md, a, a/b and a/b/c are gone once file.md has been
\* moved out; with a/b/d/other.txt left in place, a, a/b and a/b/d stay.
DocsFilesInitially == {p \in InitialFiles : InDocs(p)}
DocsWritable == \A r \in readonly : ~IsPrefix(docs_dir, r)
PathA == << "docs", "a" >>
PathAB == << "docs", "a", "b" >>
PathABC == << "docs", "a", "b", "c" >>
PathABD == << "docs", "a", "b", "d" >>
C9_ExitStatus ==
    pc = "done" =>
        IF Exists(fs_start, new_panda_core) THEN exit_code = 0 ELSE exit_code # 0

\* C10: when the container directory does not exist at the start of a run,
\* main() stops in Step 1: the tree stays as it was, nothing is renamed,
\* created, moved or pruned.
C10_AbortLeavesTree ==
    (~Exists(fs_start, old_panda_core) /\ ~Exists(fs_start, new_panda_core)) =>
        /\ fs = fs_start
        /\ pc \in {"step1", "done"}
        /\ moved_count = 0 /\ removed_count = 0

C10_Witness ==
    /\ pc = "done"
    /\ ~Exists(fs_start, new_panda_core)
    /\ panda_core = NoPath
    /\ \E p \in Descendants(fs, docs_dir) : MatchesMd(PathName(p))

\* the entries of all_files not yet counted: those still to iterate and the
\* one inside the try block
Uncounted == Cardinality(all_files) + (IF pc \in {"probe", "move"} THEN 1 ELSE 0)
InStep3 == pc \in {"loop3", "probe", "move"}

\* every listed entry is counted once, as moved or as an error: the loop
\* starts with the count of the listing to distribute and each iteration
\* moves one unit from the uncounted entries to one of the two counters
AccountingStep ==
    /\ (pc = "step3" /\ pc' = "loop3") =>
          moved_count' + error_count' + Uncounted' = Cardinality(RglobMd(fs))
    /\ (InStep3 /\ (InStep3' \/ pc' = "step4")) =>
          /\ moved_count' + error_count' + Uncounted' = moved_count + error_count + Uncounted
          /\ moved_count' >= moved_count /\ error_count' >= error_count
    /\ (InStep3 /\ pc' = "step4") => Uncounted = 0

\* C11: a failure on one document (mkdir or move) does not abort the run: the
\* failing document is still at its source path, the documents listed after
\* it are still processed, and at the end of Step 3 every listed document has
\* been counted once, moved_count + error_count being the number listed.
C11_PartialFailure ==
    [][ /\ (InStep3 /\ error_count' = error_count + 1) =>
              /\ file_path' \in DOMAIN fs'
              /\ file_path' \in DOMAIN fs_start
              /\ fs'[file_path'] = fs_start[file_path']
              /\ pc' = "loop3"
        /\ AccountingStep ]_vars

\* the accounting alone
C11_Accounting == [][AccountingStep]_vars

\* a run in which one entry was moved and another failed, both counted
C11_AccountingWitness ==
    /\ pc = "step4"
    /\ moved_count = 1
    /\ error_count = 1
    /\ Cardinality(RglobMd(fs_start)) = 2

FilesBelowDocs(f) == {p \in Descendants(f, docs_dir) : IsFile(f, p)}
\* Step 3 has just taken its listing; the run went through Steps 3 to 5
JustListed == pc = "loop3" /\ file_path = NoPath
WentThrough == pc = "done" /\ panda_core # NoPath /\ Exists(fs_start, docs_dir)

\* C15: every regular file below docs/ when Step 3 takes its listing, whatever
\* its extension, is in the listing, and after a run in which no entry was
\* counted as an error no regular file is left below docs/.
C15_CompleteCoverage ==
    /\ JustListed => FilesBelowDocs(fs) \subseteq all_files
    /\ (WentThrough /\ error_count = 0) => FilesBelowDocs(fs) = {}

\* the same for the files whose name ends in .md
C15_MarkdownCoverage ==
    /\ JustListed => {p \in FilesBelowDocs(fs) : MatchesMd(PathName(p))} \subseteq all_files
    /\ (WentThrough /\ error_count = 0) =>
          {p \in FilesBelowDocs(fs) : MatchesMd(PathName(p))} = {}

C15_MarkdownWitness ==
    /\ WentThrough
    /\ error_count = 0
    /\ moved_count = 1
    /\ FilesBelowDocs(fs) = {PathABD \o << "other.txt" >>}

\* the entry a step of the Step 4 loop takes from all_dirs, and the
\* directories the loop has still to examine after it
Examined == all_dirs \ all_dirs'
YetToExamine == {q \in all_dirs' : q \in DOMAIN fs /\ IsDir(fs, q)}
ExaminesDir ==
    /\ pc = "loop4" /\ runs' = runs
    /\ \E d \in Examined : d \in DOMAIN fs /\ IsDir(fs, d)
Depth(p) == Len(p)

\* C16: Step 4 examines the directories below docs/ deepest first: no
\* directory is examined before a directory of strictly greater depth, and
\* so every directory is examined only after all the directories below it.
C16_DeepestFirst ==
    [][ ExaminesDir =>
          \A d \in Examined :
              /\ \A q \in YetToExamine : Depth(q) <= Depth(d)
              /\ \A q \in YetToExamine : ~IsStrictPrefix(d, q) ]_vars

\* the part on descendants alone, with the order the code sorts by
C16_DescendantsFirst ==
    [][ ExaminesDir =>
          \A d \in Examined :
              /\ \A q \in all_dirs' : PathStrLen(q) <= PathStrLen(d)
              /\ \A q \in YetToExamine : ~IsStrictPrefix(d, q) ]_vars

\* docs/a/b has been examined and removed after docs/a/b/c, before docs/a
C16_DescendantsWitness ==
    /\ pc = "loop4"
    /\ PathA \in all_dirs
    /\ PathA \in DOMAIN fs
    /\ {PathAB, PathABC} \cap (all_dirs \cup DOMAIN fs) = {}
    /\ removed_count = 2

\* the regular files of a tree; a path directly inside a category directory
RegularFiles(f) == {p \in DOMAIN f : IsFile(f, p)}
InCategoryDir(q) == InContainer(q) /\ Len(q) = Len(new_panda_core) + 2 /\ q[Len(q) - 1] \in CategoryNames

\* C17: in every state of a run each regular file of the initial tree is at
\* exactly one path, its original path or a path directly inside a category
\* directory of the container, and the number of regular files is that of
\* the initial tree: none is created, deleted or duplicated.
C17_FileConservation ==
    /\ \A p0 \in InitialFiles :
          /\ Cardinality(PlacesOf(fs, p0)) = 1
          /\ \A q \in PlacesOf(fs, p0) : q = p0 \/ InCategoryDir(q)
    /\ Cardinality(RegularFiles(fs)) = Cardinality(InitialFiles)

\* with docs/ writable no file is created, deleted or duplicated
C17_ConservedWritableDocs ==
    docs_dir \notin readonly =>
        /\ \A p0 \in InitialFiles : Cardinality(PlacesOf(fs, p0)) = 1
        /\ Cardinality(RegularFiles(fs)) = Cardinality(InitialFiles)

\* C19: in a run with nothing else touching the tree, the probe loop of a
\* move makes at most n + 1 probes when the target directory holds n entries
\* (counter is the number of the probe being made), every iteration of the
\* Step 3 loop takes one listed entry that no iteration took before and
\* every iteration of the Step 4 loop one listed entry likewise, and the
\* run reaches its end.
C19_Termination ==
    /\ [](pc \in {"probe", "move"} => counter <= Cardinality(Children(fs, target_dir)) + 1)
    /\ [][ /\ pc \in {"loop3", "probe", "move"} =>
                /\ all_files' \subseteq all_files
                /\ Cardinality(all_files') >= Cardinality(all_files) - 1
                /\ (pc = "loop3" /\ pc' # "step4") =>
                      (file_path' \in all_files /\ all_files' = all_files \ {file_path'})
           /\ pc = "loop4" =>
                /\ all_dirs' \subseteq all_dirs
                /\ (pc' = "loop4") => Cardinality(all_dirs') = Cardinality(all_dirs) - 1 ]_vars
    /\ <>(pc = "done")

\* a run has ended after a move whose probe loop took two iterations
C19_Witness ==
    /\ pc = "done"
    /\ exit_code = 0
    /\ moved_count = 2
    /\ counter = 3
    /\ PathName(target_file) = "report_2.md"
    /\ all_files = {} /\ all_dirs = {}

====
